---- MODULE Spec2Model ----
(***************************************************************************)
(* DesktopController (packages/desktop/src/controller.rs): the worker      *)
(* thread that drives the VirtualDom and fills pending_edits, and the main *)
(* thread that drains pending_edits into a webview once is_ready is set.   *)
(***************************************************************************)
EXTENDS Integers, Sequences, FiniteSets, TLC

\* ------------------------------------------------------------------ bounds
\* Times dom.wait_for_work() completes: passes of the worker's `loop` that no
\* envelope starts.
MaxWork == 1
\* Envelopes sent on the event channel while the controller runs (Spec).
MaxEvents == 1
\* Envelopes already queued on the channel handed to new_on_tokio (SpecEvents).
MaxInbox == 2

\* The window identifiers of the windows that get created.
Windows == {"w1", "w2"}

\* Event-kind names decode_event recognises, and the envelopes the display
\* surface's script runtime sends: one that is no EventMessage at all, one of
\* an unrecognised kind, and two recognised ones on different elements.
KnownEvents == {"click", "keydown"}

Envelopes ==
    { [is_message |-> FALSE, event |-> "click",        mounted_dom_id |-> 5],
      [is_message |-> TRUE,  event |-> "unknown_kind", mounted_dom_id |-> 5],
      [is_message |-> TRUE,  event |-> "click",        mounted_dom_id |-> 5],
      [is_message |-> TRUE,  event |-> "keydown",      mounted_dom_id |-> 7] }

VARIABLES
    \* shared
    pending_edits,      \* Arc<Mutex<Vec<String>>>: the contents of the Vec
    lock,               \* who holds the Mutex: "free", "worker" or "main"
    poisoned,           \* the Mutex was held by a thread that panicked
    is_ready,           \* Arc<AtomicBool>
    event_rx,           \* UnboundedReceiver<serde_json::Value>: queued envelopes
    updates,            \* UserWindowEvent::Update events posted through the proxy
    handled,            \* how many of them the event loop has handed to the controller
    proxy_open,         \* the event loop behind the EventLoopProxy is alive
    \* worker thread
    wpc,                \* position of the worker thread
    iter,               \* render passes of the loop made so far
    dispatched,         \* calls of dom.handle_event, in order
    sent,               \* calls of proxy.send_event made so far, failed ones included
    \* main thread
    webviews,           \* HashMap<WindowId, WebView>: its keys
    quit_app_on_close,
    control_flow,       \* the host loop's ControlFlow: "Wait" or "Exit"
    mpc,                \* position of the main thread
    new_queue,          \* try_load_ready_webviews' local Vec (what is left to drain)
    view,               \* try_load_ready_webviews' local: the chosen webview
    \* history
    appended,           \* every string pushed on pending_edits, in order
    executed,           \* every evaluate_script call, in order
    taken,              \* what the swap of the call in progress took out of pending_edits
    received,           \* every envelope the worker took from event_rx, in order
    registered          \* the keys of webviews in the order they were inserted

vars == << pending_edits, lock, poisoned, is_ready, event_rx, updates, handled,
           proxy_open, wpc, iter, dispatched, sent, webviews, quit_app_on_close,
           control_flow, mpc, new_queue, view, appended, executed, taken,
           received, registered >>

shared_vars == << pending_edits, lock, poisoned >>
worker_vars == << wpc, iter, dispatched, sent, event_rx, received >>
main_vars   == << webviews, quit_app_on_close, control_flow, mpc, new_queue, view,
                  executed, taken, registered, handled >>
\* What a call of try_load_ready_webviews leaves alone at every step.
registry_vars == << webviews, quit_app_on_close, control_flow, registered, handled >>
\* What the main thread and the environment share with nobody.
other_vars  == << worker_vars, appended, is_ready, updates, proxy_open >>

\* ------------------------------------------------------------ pure helpers
NoView == "none"

Range(s) == { s[i] : i \in 1..Len(s) }

IsPrefix(s, t) == Len(s) <= Len(t) /\ SubSeq(t, 1, Len(s)) = s

RemoveKey(s, k) == SelectSeq(s, LAMBDA x : x # k)

\* The Mutations a render pass returns: its two groups. Pass 0 is dom.rebuild().
Mutations(n) ==
    [ template_mutations |-> [pass |-> n, group |-> "template_mutations"],
      edits              |-> [pass |-> n, group |-> "edits"] ]

\* serde_json::to_string: the JSON text of a value.
to_string(v) == [json |-> v]

\* A push that puts the string in front.
Push_Front(queue, s) == << s >> \o queue

\* Vec::push
Push(queue, s) == Append(queue, s)

\* A copy where the swap should be: the buffer keeps what was taken.
Swap_Clone(nq, queue) == << queue, queue >>

\* A swap that keeps only the newest batch and throws the older ones away.
Swap_NewestOnly(nq, queue) ==
    << IF Len(queue) > 2 THEN SubSeq(queue, Len(queue) - 1, Len(queue)) ELSE queue, nq >>

\* std::mem::swap(&mut new_queue, &mut *queue): the new << new_queue, queue >>.
Swap(nq, queue) == << queue, nq >>

\* format!("window.interpreter.handleEdits({})", edit)
Script(edit) == [call |-> "window.interpreter.handleEdits", arg |-> edit]

\* serde_json::from_value::<EventMessage>(json_value).is_ok()
from_value_ok(json_value) == json_value.is_message

\* decode_event: Some(event) for a recognised kind, None otherwise.
decode_event(value) ==
    IF value.event \in KnownEvents
    THEN [some |-> TRUE,  evt |-> [kind |-> value.event]]
    ELSE [some |-> FALSE, evt |-> [kind |-> ""]]

ElementId(n) == [element_id |-> n]

\* The envelope is dispatched whether or not decode_event returned an event.
HandleEnvelope_NoDecodeCheck(calls, json_value) ==
    IF from_value_ok(json_value)
    THEN Append(calls, [name |-> json_value.event,
                        event |-> decode_event(json_value).evt,
                        element |-> ElementId(json_value.mounted_dom_id),
                        bubbles |-> TRUE, priority |-> "Medium"])
    ELSE calls

\* The event is dispatched to the element of the previous call.
HandleEnvelope_StaleElement(calls, json_value) ==
    IF from_value_ok(json_value) /\ decode_event(json_value).some
    THEN Append(calls, [name |-> json_value.event,
                        event |-> decode_event(json_value).evt,
                        element |-> IF calls = << >>
                                    THEN ElementId(json_value.mounted_dom_id)
                                    ELSE calls[Len(calls)].element,
                        bubbles |-> TRUE, priority |-> "Medium"])
    ELSE calls

\* Lines 63-69: the calls of dom.handle_event after the envelope json_value.
HandleEnvelope(calls, json_value) ==
    IF from_value_ok(json_value)
    THEN LET name   == json_value.event
             el_id  == ElementId(json_value.mounted_dom_id)
             evt    == decode_event(json_value)
         IN  IF evt.some
             THEN Append(calls, [name |-> name, event |-> evt.evt, element |-> el_id,
                                 bubbles |-> TRUE, priority |-> "Medium"])
             ELSE calls
    ELSE calls

\* The policy flag is not consulted.
ShouldExit_IgnoresPolicy(views, quit) == views = {}

\* self.webviews.is_empty() && self.quit_app_on_close
ShouldExit(views, quit) == views = {} /\ quit

\* The flag is not consulted.
IsReadyLoad_Always(flag) == TRUE

\* self.is_ready.load(Relaxed)
IsReadyLoad(flag) == flag

\* ------------------------------------------------------------------- Init
Init ==
    /\ pending_edits = << >>
    /\ lock = "free"
    /\ poisoned = FALSE
    /\ is_ready = FALSE
    /\ event_rx = << >>
    /\ updates = 0
    /\ proxy_open = TRUE
    /\ wpc = "rebuild"
    /\ iter = 0
    /\ dispatched = << >>
    /\ sent = 0
    /\ webviews = {}
    /\ quit_app_on_close = TRUE
    /\ control_flow = "Wait"
    /\ mpc = "idle"
    /\ new_queue = << >>
    /\ view = NoView
    /\ appended = << >>
    /\ executed = << >>
    /\ handled = 0
    /\ taken = << >>
    /\ received = << >>
    /\ registered = << >>

\* ---------------------------------------------------------- worker thread
\* A panic of the worker: the thread ends; a MutexGuard it holds is dropped
\* while panicking, which poisons the Mutex.
WorkerPanics ==
    /\ wpc' = "panicked"
    /\ poisoned' = (poisoned \/ lock = "worker")
    /\ lock' = IF lock = "worker" THEN "free" ELSE lock

\* edit_queue.lock().unwrap() on the worker: waits while the main thread holds
\* the Mutex, panics when it is poisoned.
WorkerLock(next) ==
    /\ lock = "free"
    /\ IF poisoned
       THEN WorkerPanics /\ UNCHANGED pending_edits
       ELSE lock' = "worker" /\ wpc' = next /\ UNCHANGED << poisoned, pending_edits >>
    /\ UNCHANGED << iter, dispatched, sent, event_rx, received, appended >>

\* A push that skips a group to_string cannot serialize and goes on.
WorkerPush_SkipsOnError(group, next) ==
    /\ \E ok \in BOOLEAN :
          /\ pending_edits' = IF ok THEN Push(pending_edits, to_string(group))
                                    ELSE pending_edits
          /\ appended' = IF ok THEN Append(appended, to_string(group)) ELSE appended
    /\ wpc' = next
    /\ UNCHANGED << lock, poisoned, iter, dispatched, sent, event_rx, received >>

\* queue.push(serde_json::to_string(&group).unwrap()): to_string returns Ok or Err.
WorkerPush(group, next) ==
    /\ \E ok \in BOOLEAN :
          IF ok
          THEN /\ pending_edits' = Push(pending_edits, to_string(group))
               /\ appended' = Append(appended, to_string(group))
               /\ wpc' = next
               /\ UNCHANGED << lock, poisoned >>
          ELSE /\ WorkerPanics
               /\ UNCHANGED << pending_edits, appended >>
    /\ UNCHANGED << iter, dispatched, sent, event_rx, received >>

\* The guard `queue` goes out of scope at the end of the block.
WorkerUnlock(next) ==
    /\ lock' = "free"
    /\ wpc' = next
    /\ UNCHANGED << pending_edits, poisoned, iter, dispatched, sent, event_rx,
                    received, appended >>

\* A worker that enters its loop without the startup block.
Rebuild_Skipped ==
    /\ wpc = "rebuild"
    /\ wpc' = "select"
    /\ UNCHANGED << shared_vars, iter, dispatched, sent, event_rx, received, appended,
                    is_ready, updates, proxy_open, main_vars >>

\* let edits = dom.rebuild();
Rebuild ==
    /\ wpc = "rebuild"
    /\ wpc' = "s_lock"
    /\ UNCHANGED << shared_vars, iter, dispatched, sent, event_rx, received, appended,
                    is_ready, updates, proxy_open, main_vars >>

StartupLock ==
    /\ wpc = "s_lock"
    /\ WorkerLock("s_push_template")
    /\ UNCHANGED << is_ready, updates, proxy_open, main_vars >>

StartupPushTemplate ==
    /\ wpc = "s_push_template"
    /\ WorkerPush(Mutations(0).template_mutations, "s_push_edits")
    /\ UNCHANGED << is_ready, updates, proxy_open, main_vars >>

StartupPushEdits ==
    /\ wpc = "s_push_edits"
    /\ WorkerPush(Mutations(0).edits, "s_send")
    /\ UNCHANGED << is_ready, updates, proxy_open, main_vars >>

\* proxy.send_event(UserWindowEvent::Update).unwrap();
StartupSend ==
    /\ wpc = "s_send"
    /\ IF proxy_open
       THEN /\ updates' = updates + 1
            /\ wpc' = "s_unlock"
            /\ UNCHANGED << lock, poisoned >>
       ELSE /\ WorkerPanics
            /\ UNCHANGED updates
    /\ sent' = sent + 1
    /\ UNCHANGED << pending_edits, iter, dispatched, event_rx, received, appended,
                    is_ready, proxy_open, main_vars >>

StartupUnlock ==
    /\ wpc = "s_unlock"
    /\ WorkerUnlock("select")
    /\ UNCHANGED << is_ready, updates, proxy_open, main_vars >>

\* tokio::select!, branch `_ = dom.wait_for_work() => {}`
SelectWork ==
    /\ wpc = "select"
    /\ iter - Len(received) < MaxWork
    /\ wpc' = "render"
    /\ UNCHANGED << shared_vars, iter, dispatched, sent, event_rx, received, appended,
                    is_ready, updates, proxy_open, main_vars >>

\* tokio::select!, branch `Some(json_value) = event_rx.next() => { ... }`
SelectEvent ==
    /\ wpc = "select"
    /\ event_rx # << >>
    /\ event_rx' = Tail(event_rx)
    /\ received' = Append(received, Head(event_rx))
    /\ dispatched' = HandleEnvelope(dispatched, Head(event_rx))
    /\ wpc' = "render"
    /\ UNCHANGED << shared_vars, iter, sent, appended, is_ready, updates, proxy_open,
                    main_vars >>

\* let muts = dom.render_with_deadline(sleep(16ms)).await;
Render ==
    /\ wpc = "render"
    /\ iter' = iter + 1
    /\ wpc' = "lock"
    /\ UNCHANGED << shared_vars, dispatched, sent, event_rx, received, appended,
                    is_ready, updates, proxy_open, main_vars >>

LoopLock ==
    /\ wpc = "lock"
    /\ WorkerLock("push_template")
    /\ UNCHANGED << is_ready, updates, proxy_open, main_vars >>

LoopPushTemplate ==
    /\ wpc = "push_template"
    /\ WorkerPush(Mutations(iter).template_mutations, "push_edits")
    /\ UNCHANGED << is_ready, updates, proxy_open, main_vars >>

LoopPushEdits ==
    /\ wpc = "push_edits"
    /\ WorkerPush(Mutations(iter).edits, "send")
    /\ UNCHANGED << is_ready, updates, proxy_open, main_vars >>

\* A pass that appends its batch and posts nothing.
LoopSend_Skipped ==
    /\ wpc = "send"
    /\ wpc' = "unlock"
    /\ UNCHANGED << shared_vars, iter, dispatched, sent, event_rx, received, appended,
                    is_ready, updates, proxy_open, main_vars >>

\* let _ = proxy.send_event(UserWindowEvent::Update);
LoopSend ==
    /\ wpc = "send"
    /\ updates' = IF proxy_open THEN updates + 1 ELSE updates
    /\ sent' = sent + 1
    /\ wpc' = "unlock"
    /\ UNCHANGED << shared_vars, iter, dispatched, event_rx, received, appended,
                    is_ready, proxy_open, main_vars >>

\* A worker that goes back to waiting with the guard still alive.
LoopUnlock_KeepsLock ==
    /\ wpc = "unlock"
    /\ wpc' = "select"
    /\ UNCHANGED << shared_vars, iter, dispatched, sent, event_rx, received, appended,
                    is_ready, updates, proxy_open, main_vars >>

\* The guard `queue` goes out of scope at the end of the block (line 82).
LoopUnlock ==
    /\ wpc = "unlock"
    /\ WorkerUnlock("select")
    /\ UNCHANGED << is_ready, updates, proxy_open, main_vars >>

\* ------------------------------------------------------------ main thread
\* The host event loop calls into the controller while it runs.
MainRuns == mpc = "idle" /\ control_flow = "Wait"

\* webviews.insert(window_id, webview) by the window-creation code.
RegisterWindow(w) ==
    /\ MainRuns
    /\ w \notin webviews
    /\ webviews' = webviews \cup {w}
    /\ registered' = Append(registered, w)
    /\ UNCHANGED << shared_vars, other_vars, quit_app_on_close, control_flow, mpc,
                    new_queue, view, executed, taken, handled >>

\* The display surface reports that it has loaded.
SetReady ==
    /\ MainRuns
    /\ webviews # {}
    /\ ~is_ready
    /\ is_ready' = TRUE
    /\ UNCHANGED << shared_vars, worker_vars, appended, updates, proxy_open, main_vars >>

\* The embedding code sets the policy field.
SetQuitAppOnClose(b) ==
    /\ MainRuns
    /\ quit_app_on_close # b
    /\ quit_app_on_close' = b
    /\ UNCHANGED << shared_vars, other_vars, webviews, control_flow, registered,
                    handled, mpc, new_queue, view, executed, taken >>

\* close_window(window_id, control_flow)
CloseWindow(w) ==
    /\ MainRuns
    /\ webviews' = webviews \ {w}
    /\ registered' = RemoveKey(registered, w)
    /\ control_flow' = IF ShouldExit(webviews', quit_app_on_close)
                       THEN "Exit" ELSE control_flow
    /\ UNCHANGED << shared_vars, other_vars, quit_app_on_close, handled, mpc,
                    new_queue, view, executed, taken >>

\* try_load_ready_webviews, line 104: the test of is_ready.
TryLoadBegin ==
    /\ mpc' = IF IsReadyLoad(is_ready) THEN "m_lock" ELSE "idle"
    /\ UNCHANGED << shared_vars, other_vars, webviews, quit_app_on_close,
                    control_flow, registered, new_queue, view, executed, taken >>

\* The host calls try_load_ready_webviews whenever it chooses to.
TryLoadReadyWebviews ==
    /\ MainRuns
    /\ handled' = handled
    /\ TryLoadBegin

\* The host calls try_load_ready_webviews for an Update event of its queue.
OnUpdate ==
    /\ MainRuns
    /\ handled < updates
    /\ handled' = handled + 1
    /\ TryLoadBegin

\* A drain that reads the buffer without waiting for the Mutex.
MainLock_SkipsWait ==
    /\ mpc = "m_lock"
    /\ mpc' = "m_swap"
    /\ new_queue' = << >>
    /\ UNCHANGED << shared_vars, other_vars, registry_vars, view, executed, taken >>

\* let mut new_queue = Vec::new(); let mut queue = self.pending_edits.lock().unwrap();
MainLock ==
    /\ mpc = "m_lock"
    /\ lock = "free"
    /\ IF poisoned
       THEN mpc' = "panicked" /\ UNCHANGED lock
       ELSE mpc' = "m_swap" /\ lock' = "main"
    /\ new_queue' = << >>
    /\ UNCHANGED << pending_edits, poisoned, other_vars, registry_vars, view,
                    executed, taken >>

\* std::mem::swap(&mut new_queue, &mut *queue);
MainSwap ==
    /\ mpc = "m_swap"
    /\ new_queue' = Swap(new_queue, pending_edits)[1]
    /\ pending_edits' = Swap(new_queue, pending_edits)[2]
    /\ taken' = pending_edits
    /\ mpc' = "m_unlock"
    /\ UNCHANGED << lock, poisoned, other_vars, registry_vars, view, executed >>

\* The guard lives until the end of the function instead.
MainUnlock_KeepsLock ==
    /\ mpc = "m_unlock"
    /\ mpc' = "m_pick"
    /\ UNCHANGED << shared_vars, other_vars, registry_vars, new_queue, view,
                    executed, taken >>

\* The guard `queue` goes out of scope at the end of the inner block.
MainUnlock ==
    /\ mpc = "m_unlock"
    /\ lock' = "free"
    /\ mpc' = "m_pick"
    /\ UNCHANGED << pending_edits, poisoned, other_vars, registry_vars, new_queue,
                    view, executed, taken >>

\* let (_id, view) = self.webviews.iter_mut().next().unwrap();
\* A HashMap iterates in an unspecified order: any entry can come first.
\* With no entry unwrap panics, and the locals are dropped.
MainPick ==
    /\ mpc = "m_pick"
    /\ IF webviews = {}
       THEN mpc' = "panicked" /\ view' = NoView /\ new_queue' = << >>
       ELSE mpc' = "m_exec" /\ view' \in webviews /\ UNCHANGED new_queue
    /\ UNCHANGED << shared_vars, other_vars, registry_vars, executed, taken >>

\* for edit in new_queue.drain(..) { view.evaluate_script(..).unwrap(); }
\* evaluate_script returns Ok or Err; on Err unwrap panics.
MainExec ==
    /\ mpc = "m_exec"
    /\ new_queue # << >>
    /\ \E ok \in BOOLEAN :
          /\ executed' = Append(executed, [script |-> Script(Head(new_queue)),
                                           view |-> view, ok |-> ok])
          /\ mpc' = IF ok THEN "m_exec" ELSE "panicked"
          /\ new_queue' = IF ok THEN Tail(new_queue) ELSE << >>
    /\ UNCHANGED << shared_vars, other_vars, registry_vars, view, taken >>

\* A drain that clears the flag when it returns.
MainReturn_ClearsReady ==
    /\ mpc = "m_exec"
    /\ new_queue = << >>
    /\ mpc' = "idle"
    /\ view' = NoView
    /\ taken' = << >>
    /\ is_ready' = FALSE
    /\ UNCHANGED << shared_vars, worker_vars, appended, updates, proxy_open,
                    registry_vars, new_queue, executed >>

\* The drain iterator is exhausted: try_load_ready_webviews returns.
MainReturn ==
    /\ mpc = "m_exec"
    /\ new_queue = << >>
    /\ mpc' = "idle"
    /\ view' = NoView
    /\ taken' = << >>
    /\ UNCHANGED << shared_vars, other_vars, registry_vars, new_queue, executed >>

\* ------------------------------------------------------------ environment
\* The display surface's script runtime sends an envelope on the channel.
SendEvent(e) ==
    /\ Len(received) + Len(event_rx) < MaxEvents
    /\ event_rx' = Append(event_rx, e)
    /\ UNCHANGED << shared_vars, wpc, iter, dispatched, sent, received, appended,
                    is_ready, updates, proxy_open, main_vars >>

\* The host event loop is gone: send_event fails from now on.
LoopDestroyed ==
    /\ proxy_open
    /\ control_flow = "Exit" \/ mpc = "panicked"
    /\ proxy_open' = FALSE
    /\ UNCHANGED << shared_vars, worker_vars, appended, is_ready, updates, main_vars >>

Next ==
    \/ Rebuild
    \/ StartupLock
    \/ StartupPushTemplate
    \/ StartupPushEdits
    \/ StartupSend
    \/ StartupUnlock
    \/ SelectWork
    \/ SelectEvent
    \/ Render
    \/ LoopLock
    \/ LoopPushTemplate
    \/ LoopPushEdits
    \/ LoopSend
    \/ LoopUnlock
    \/ \E w \in Windows : RegisterWindow(w)
    \/ \E w \in Windows : CloseWindow(w)
    \/ SetReady
    \/ \E b \in BOOLEAN : SetQuitAppOnClose(b)
    \/ TryLoadReadyWebviews
    \/ MainLock
    \/ MainSwap
    \/ MainUnlock
    \/ MainPick
    \/ MainExec
    \/ MainReturn
    \/ \E e \in Envelopes : SendEvent(e)
    \/ LoopDestroyed

Spec == Init /\ [][Next]_vars

\* ------------------------------------------------- the event path on its own
\* new_on_tokio is handed a channel that already holds envelopes; the worker
\* thread runs on it.
Inboxes == UNION { [1..n -> Envelopes] : n \in 0..MaxInbox }

InitEvents ==
    /\ pending_edits = << >>
    /\ lock = "free"
    /\ poisoned = FALSE
    /\ is_ready = FALSE
    /\ event_rx \in Inboxes
    /\ updates = 0
    /\ proxy_open = TRUE
    /\ wpc = "rebuild"
    /\ iter = 0
    /\ dispatched = << >>
    /\ sent = 0
    /\ webviews = {}
    /\ quit_app_on_close = TRUE
    /\ control_flow = "Wait"
    /\ mpc = "idle"
    /\ new_queue = << >>
    /\ view = NoView
    /\ appended = << >>
    /\ executed = << >>
    /\ handled = 0
    /\ taken = << >>
    /\ received = << >>
    /\ registered = << >>

NextEvents ==
    \/ Rebuild
    \/ StartupLock
    \/ StartupPushTemplate
    \/ StartupPushEdits
    \/ StartupSend
    \/ StartupUnlock
    \/ SelectWork
    \/ SelectEvent
    \/ Render
    \/ LoopLock
    \/ LoopPushTemplate
    \/ LoopPushEdits
    \/ LoopSend
    \/ LoopUnlock

SpecEvents == InitEvents /\ [][NextEvents]_vars

\* ------------------------------------------- the controller behind its host
\* The host's event loop owns the controller: windows are registered, the
\* flag is set, and the loop calls try_load_ready_webviews once for each
\* Update event of its queue. The worker thread is just spawned.
Registries == { << "w1" >>, << "w1", "w2" >> }

\* The envelopes the display surface sends here: a click the worker can
\* decode and a value it cannot read as a message.
ClickEnvelopes == { e \in Envelopes : e.event = "click" }

InitLive ==
    /\ pending_edits = << >>
    /\ lock = "free"
    /\ poisoned = FALSE
    /\ is_ready = TRUE
    /\ event_rx = << >>
    /\ updates = 0
    /\ proxy_open = TRUE
    /\ wpc = "rebuild"
    /\ iter = 0
    /\ dispatched = << >>
    /\ sent = 0
    /\ registered \in Registries
    /\ webviews = Range(registered)
    /\ quit_app_on_close = TRUE
    /\ control_flow = "Wait"
    /\ mpc = "idle"
    /\ new_queue = << >>
    /\ view = NoView
    /\ appended = << >>
    /\ executed = << >>
    /\ handled = 0
    /\ taken = << >>
    /\ received = << >>

\* The steps of the worker thread.
WorkerStep ==
    \/ Rebuild
    \/ StartupLock
    \/ StartupPushTemplate
    \/ StartupPushEdits
    \/ StartupSend
    \/ StartupUnlock
    \/ SelectWork
    \/ SelectEvent
    \/ Render
    \/ LoopLock
    \/ LoopPushTemplate
    \/ LoopPushEdits
    \/ LoopSend
    \/ LoopUnlock

\* The steps of the main thread: an Update event handled, and the drain.
MainStep ==
    \/ OnUpdate
    \/ MainLock
    \/ MainSwap
    \/ MainUnlock
    \/ MainPick
    \/ MainExec
    \/ MainReturn

NextLive ==
    \/ WorkerStep
    \/ MainStep
    \/ \E e \in ClickEnvelopes : SendEvent(e)

\* Both are OS threads that run whenever they can take a step: the worker is
\* a spawned thread driving its own runtime, the main thread is the host's
\* event loop, which handles every event posted to it.
SpecLive ==
    InitLive /\ [][NextLive]_vars /\ WF_vars(WorkerStep) /\ WF_vars(MainStep)

\* -------------------------------------------------------------- properties
\* The payloads of the evaluate_script calls made so far, in call order.
Delivered == [i \in 1..Len(executed) |-> executed[i].script.arg]

\* The place of a payload in production order: pass by pass, the template
\* payload of a pass before its edits payload.
Rank(p) == 2 * p.json.pass + (IF p.json.group = "template_mutations" THEN 0 ELSE 1)

NoDup(s) == \A i, j \in 1..Len(s) : i # j => s[i] # s[j]

LastN(s, n) == SubSeq(s, Len(s) - n + 1, Len(s))

AllOk == \A i \in 1..Len(executed) : executed[i].ok

\* C1: the payloads handed to the display surface are a prefix of the payloads
\* appended to the buffer, in the same order, across drains, and they are in
\* production order (a pass's template payload before its edits payload).
C1_DeliveryOrder ==
    /\ IsPrefix(Delivered, appended)
    /\ \A i, j \in 1..Len(Delivered) :
          i < j => Rank(Delivered[i]) < Rank(Delivered[j])

\* Two batches delivered by two different drains: the drain in progress took
\* the second batch alone and has made its calls, after an earlier drain
\* delivered the first.
C1_Witness ==
    /\ mpc = "m_exec" /\ new_queue = << >>
    /\ Len(taken) = 2 /\ Len(executed) = 4 /\ AllOk

\* C2: no update is lost: once a call of try_load_ready_webviews is over,
\* every payload the worker appended is still in the buffer or has been
\* handed to a display surface.
C2_NoLostUpdate ==
    mpc \in {"idle", "panicked"} =>
        \A i \in 1..Len(appended) :
            appended[i] \in Range(pending_edits) \cup Range(Delivered)

\* C3: the swap takes the whole buffer in one step: right after it the buffer
\* is empty and the drained sequence is what the buffer held, in order; and no
\* payload is handed to the display surface twice.
C3_AtomicDrain ==
    /\ mpc = "m_unlock" => pending_edits = << >> /\ new_queue = taken
    /\ NoDup(Delivered)

\* A swap that takes a batch after an earlier drain delivered one.
C3_Witness == mpc = "m_unlock" /\ Len(new_queue) = 2 /\ Len(executed) = 2

\* C4: while is_ready is false a call of try_load_ready_webviews changes
\* nothing: no evaluate_script call has been made, the call never gets past
\* the test, and the buffer only grows.
C4_NotReadyNoOp ==
    /\ [](~is_ready => executed = << >> /\ mpc = "idle" /\ lock # "main")
    /\ [][~is_ready' => IsPrefix(pending_edits, pending_edits')]_vars
    /\ [][(~is_ready /\ TryLoadReadyWebviews) => UNCHANGED vars]_vars

\* Two batches wait in the buffer and the flag is still false.
C4_Witness == ~is_ready /\ Len(pending_edits) = 4 /\ webviews # {}

\* C5: a drain takes every payload accumulated since the last drain, not only
\* the newest batch, and makes exactly one evaluate_script call for each, in
\* order: when its loop is over its calls are what it took.
C5_DrainDeliversAll ==
    /\ mpc = "m_unlock" => Delivered \o taken = appended
    /\ mpc = "m_exec" =>
          /\ Len(taken) - Len(new_queue) <= Len(Delivered)
          /\ LastN(Delivered, Len(taken) - Len(new_queue)) \o new_queue = taken

\* The first drain after is_ready was set took two batches and made exactly
\* four calls, tmpl1, edit1, tmpl2, edit2.
C5_Witness ==
    /\ mpc = "m_exec" /\ new_queue = << >> /\ AllOk
    /\ Delivered = << to_string(Mutations(0).template_mutations),
                      to_string(Mutations(0).edits),
                      to_string(Mutations(1).template_mutations),
                      to_string(Mutations(1).edits) >>
    /\ taken = Delivered
    /\ pending_edits = << >>

\* C6: the worker does not hold the buffer lock while it posts the Update
\* notification.
C6_NotifyOutsideLock == wpc \in {"s_send", "send"} => lock # "worker"

\* C7: the main thread holds the lock for the swap only: it is released
\* before the webview is chosen and before any evaluate_script call, and what
\* the worker appends meanwhile stays in the buffer, behind what the drain in
\* progress took.
C7_LockOnlyForSwap ==
    mpc \in {"m_pick", "m_exec"} =>
        /\ lock # "main"
        /\ Delivered \o new_queue \o pending_edits = appended

\* The worker holds the lock and has appended a payload while the main thread
\* is between two evaluate_script calls.
C7_Witness ==
    /\ mpc = "m_exec" /\ executed # << >> /\ new_queue # << >>
    /\ lock = "worker" /\ pending_edits # << >>

\* C8: closing the last window with quit_app_on_close set requests the exit
\* of the loop, once; a step that leaves a window registered requests none;
\* with the flag unset none is requested; and a close removes one entry and
\* leaves the buffer and is_ready alone.
C8_CloseWindow ==
    [][ /\ (webviews # {} /\ webviews' = {} /\ quit_app_on_close)
            => (control_flow = "Wait" /\ control_flow' = "Exit")
        /\ webviews' # {} => control_flow' = control_flow
        /\ ~quit_app_on_close => control_flow' = control_flow
        /\ control_flow = "Exit" => control_flow' = "Exit"
        /\ (webviews' # webviews /\ webviews' \subseteq webviews)
            => /\ Cardinality(webviews \ webviews') = 1
               /\ pending_edits' = pending_edits
               /\ is_ready' = is_ready
      ]_vars

\* The last window was closed while payloads waited, and the exit was requested.
C8_Witness ==
    control_flow = "Exit" /\ webviews = {} /\ is_ready /\ pending_edits # << >>

\* The envelopes that decode, and the handle_event call each of them is to
\* cause, stated apart from the worker's code.
Decodable(e) == e.is_message /\ e.event \in KnownEvents

ExpectedCall(e) ==
    [ name |-> e.event, event |-> [kind |-> e.event],
      element |-> [element_id |-> e.mounted_dom_id],
      bubbles |-> TRUE, priority |-> "Medium" ]

ExpectedCalls(envs) ==
    LET good == SelectSeq(envs, Decodable)
    IN  [i \in 1..Len(good) |-> ExpectedCall(good[i])]

\* C9: an envelope that fails to decode causes no handle_event call, the
\* worker goes on to its render step, and the calls the other envelopes cause
\* are as many as without it.
C9_UndecodableDropped ==
    /\ [](Len(dispatched) = Len(SelectSeq(received, Decodable)))
    /\ [][(received' # received /\ ~Decodable(received'[Len(received')]))
            => (dispatched' = dispatched /\ wpc' = "render")]_vars

\* An envelope that does not decode was taken before one that does.
C9_Witness ==
    /\ Len(received) = 2
    /\ ~Decodable(received[1]) /\ Decodable(received[2])
    /\ Len(dispatched) = 1

\* C10: every envelope that decodes causes exactly one handle_event call with
\* its event name, the decoded event, its element id and medium priority, and
\* the calls are in the order of the envelopes on the channel.
C10_DecodedDispatched == dispatched = ExpectedCalls(received)

\* Two envelopes for different elements were dispatched.
C10_Witness ==
    /\ Len(dispatched) = 2
    /\ dispatched[1].element # dispatched[2].element

\* C11: a send_event call that fails is ignored by the worker, at startup as
\* in the loop: the worker goes on, the buffer is unchanged and the Mutex
\* stays usable.
C11_SendFailureIgnored ==
    [][(wpc \in {"s_send", "send"} /\ ~proxy_open /\ wpc' # wpc) =>
          /\ wpc' # "panicked"
          /\ poisoned' = poisoned
          /\ pending_edits' = pending_edits]_vars

\* C12: a call of try_load_ready_webviews that finds the buffer empty is a
\* no-op whatever the flag and the registry are: it makes no evaluate_script
\* call, changes neither the buffer, the registry nor the flag, and does not
\* panic.
C12_EmptyDrainNoOp ==
    [][(/\ mpc' # mpc
        /\ \/ mpc = "m_swap" /\ pending_edits = << >>
           \/ mpc \in {"m_unlock", "m_pick"} /\ taken = << >>) =>
          /\ mpc' # "panicked"
          /\ executed' = executed
          /\ pending_edits' = pending_edits
          /\ webviews' = webviews
          /\ is_ready' = is_ready]_vars

StartupStates == {"rebuild", "s_lock", "s_push_template", "s_push_edits", "s_send",
                  "s_unlock"}

LoopStates == {"select", "render", "lock", "push_template", "push_edits", "send",
               "unlock"}

InitialBatch == << to_string(Mutations(0).template_mutations),
                   to_string(Mutations(0).edits) >>

\* C13: before its first loop pass the worker does one initial build, appends
\* its template payload then its edits payload, and sends one notification:
\* the first two payloads ever appended are those of the initial build, every
\* payload of a loop pass comes after them, and the worker reaches its loop
\* with exactly that batch appended and exactly one send_event call made.
C13_StartupBatchFirst ==
    /\ IsPrefix(appended, InitialBatch) \/ IsPrefix(InitialBatch, appended)
    /\ \A i \in 3..Len(appended) : appended[i].json.pass >= 1
    /\ wpc \in StartupStates =>
          /\ iter = 0 /\ received = << >> /\ dispatched = << >>
          /\ sent = (IF wpc = "s_unlock" THEN 1 ELSE 0)
    /\ wpc \in LoopStates => IsPrefix(InitialBatch, appended) /\ sent >= 1
    /\ (wpc = "select" /\ iter = 0) =>
          appended = InitialBatch /\ sent = 1 /\ updates = 1

\* The worker waits in its loop for the first time, the startup batch behind it.
C13_Witness ==
    /\ wpc = "select" /\ iter = 0 /\ lock = "free"
    /\ appended = InitialBatch /\ sent = 1 /\ updates = 1

\* The evaluate_script calls the drain in progress has made so far.
CallsOfDrain == LastN(executed, Len(taken) - Len(new_queue))

\* C14: every payload of every drain is handed to one display surface, the
\* first registered one: the entry whose registration is the earliest among
\* the entries the registry holds.
C14_FirstRegistered ==
    mpc = "m_exec" =>
        /\ view = Head(registered)
        /\ \A i \in 1..Len(CallsOfDrain) : CallsOfDrain[i].view = Head(registered)

\* C15: is_ready is created false; no step of the controller or of the worker
\* writes it (it changes only while the controller is idle, in a step that
\* changes nothing of the controller, the worker or the buffer); once true it
\* stays true.
C15_ReadyOneShot ==
    /\ ~is_ready
    /\ [][is_ready => is_ready']_vars
    /\ [][is_ready' # is_ready =>
             UNCHANGED << shared_vars, worker_vars, main_vars, appended >>]_vars

\* The flag is still true after drains delivered a batch and the registry was
\* emptied.
C15_Witness ==
    /\ is_ready /\ mpc = "idle" /\ webviews = {}
    /\ Len(executed) = 2 /\ AllOk /\ wpc = "select"

PushStates == {"s_push_template", "s_push_edits", "push_template", "push_edits"}

\* C16: a to_string failure on either payload ends the worker: a push step
\* that appends nothing leaves the worker terminated, and a terminated worker
\* appends nothing, sends no notification and dispatches no event.
C16_SerializationFatal ==
    /\ [][(wpc \in PushStates /\ wpc' # wpc /\ appended' = appended) =>
             wpc' = "panicked"]_vars
    /\ [][wpc = "panicked" =>
             UNCHANGED << wpc, appended, sent, updates, dispatched, received,
                          iter >>]_vars

\* The worker ended on the edits payload of its first loop pass: the template
\* payload of that pass is the last thing it appended.
C16_Witness ==
    /\ wpc = "panicked" /\ sent = 1 /\ iter = 1
    /\ Len(appended) = 3 /\ poisoned

\* C17: every loop pass, whichever branch woke it, consumes at most one
\* envelope, renders once, appends exactly two payloads (template then edits)
\* under one hold of the Mutex and makes exactly one send_event call before
\* it waits again: when the worker waits, the send_event calls made are as
\* many as the batches appended.
C17_LoopPass ==
    /\ wpc \in {"select", "render", "unlock"} =>
          sent = iter + 1 /\ Len(appended) = 2 * (iter + 1)
    /\ wpc \in {"lock", "push_template"} =>
          sent = iter /\ Len(appended) = 2 * iter
    /\ wpc = "push_edits" => sent = iter /\ Len(appended) = 2 * iter + 1
    /\ wpc = "send" => sent = iter /\ Len(appended) = 2 * iter + 2
    /\ wpc \in {"push_template", "push_edits", "send", "unlock"} => lock = "worker"
    /\ wpc \in LoopStates =>
          Len(received) <= (IF wpc = "render" THEN iter + 1 ELSE iter)
    /\ \A k \in 1..Len(appended) : Rank(appended[k]) = k - 1

\* The worker waits again after two passes, one woken by dom work and one by
\* an envelope.
C17_Witness ==
    /\ wpc = "select" /\ iter = 2 /\ Len(received) = 1
    /\ sent = 3 /\ Len(appended) = 6

\* C18 as stated: whenever the Mutex is free the buffer holds an even number
\* of payloads.
C18_EvenWhenFree == lock = "free" => Len(pending_edits) % 2 = 0

\* s is made of whole batches: a template payload and the edits payload of
\* the same pass, batch after batch.
WholeBatches(s) ==
    /\ Len(s) % 2 = 0
    /\ \A i \in 1..Len(s) :
          i % 2 = 1 =>
             /\ s[i].json.group = "template_mutations"
             /\ s[i + 1].json.group = "edits"
             /\ s[i + 1].json.pass = s[i].json.pass

\* C18, amended: whenever the Mutex is free and not poisoned the buffer holds
\* whole batches, and every drain takes whole batches: no drain hands over a
\* template payload without the edits payload of its pass.
C18_WholeBatches ==
    /\ (lock = "free" /\ ~poisoned) => WholeBatches(pending_edits)
    /\ WholeBatches(taken)
    /\ mpc = "m_unlock" => WholeBatches(new_queue)

\* A drain hands over a whole batch while the worker, holding the Mutex, is
\* between the two appends of the next one.
C18_Witness ==
    /\ mpc = "m_exec" /\ Len(taken) = 2
    /\ wpc = "push_edits" /\ Len(pending_edits) = 1

\* The most payloads the worker appends within the bounds.
MaxPayloads == 2 * (MaxWork + MaxEvents + 1)

\* Every appended payload is handed to a display surface sooner or later.
AllHandedOver ==
    \A k \in 1..MaxPayloads : (Len(appended) >= k) ~> (Len(executed) >= k)

\* A payload waiting in the buffer with the Mutex free has a notification
\* ahead of it: an Update event not handled yet, or a drain about to lock.
NotifiedAfterAppend ==
    (lock = "free" /\ pending_edits # << >>) =>
        (handled < updates \/ mpc = "m_lock")

C20_WorkerFailureConfined ==
    [][(wpc = "panicked" /\ mpc = "m_lock" /\ mpc' # mpc) => mpc' = "m_swap"]_vars
====
